---- MODULE Spec2Model ----
(***************************************************************************)
(* notion-df: uploading a dataframe to Notion and loading one from it      *)
(* (src/src/notion_df/agent.py), and the validated value objects of        *)
(* src/src/notion_df/base.py, and the parsing of blocks of                  *)
(* src/src/notion_df/blocks.py.                                            *)
(*                                                                         *)
(* Strings the code inspects character by character (URLs, option names,   *)
(* ids, time strings) are sequences of one-character strings.  Python's    *)
(* None is the string "None" where the value is a string, and a            *)
(* distinguished record where the value is an object.                      *)
(***************************************************************************)
EXTENDS Integers, Sequences, FiniteSets, TLC

\* ------------------------------------------------------------------ bounds

\* The largest number of rows of an uploaded dataframe.
MaxRows == 3

\* The longest option name, and the longest list of option names, tried.
MaxNameLen == 2
MaxOptions == 2

\* The longest string given to RichTextObject.encode_string.
MaxStrLen == 7

\* The largest number of blocks under the page that parse_blocks is given.
MaxBlocks == 3

\* notion_df.constants.RICH_TEXT_CONTENT_MAX_LENGTH, scaled down so that strings
\* of several chunks are within MaxStrLen.
RICH_TEXT_CONTENT_MAX_LENGTH == 3

\* ------------------------------------------------------------ plain values

None == "None"

Range(s) == {s[i] : i \in 1..Len(s)}

\* t in s, for Python strings.
Contains(s, t) ==
    \E i \in 1..(Len(s) - Len(t) + 1) : SubSeq(s, i, i + Len(t) - 1) = t

\* s.split("/")[-1]
LastSegment(s) ==
    LET slashes == {i \in 1..Len(s) : s[i] = "/"}
        last == IF slashes = {} THEN 0
                ELSE CHOOSE i \in slashes : \A j \in slashes : j <= i
    IN  SubSeq(s, last + 1, Len(s))

\* agent.py: module constant, the step of the slice df[::step].
NOT_REVERSE_DATAFRAME == -1

\* ------------------------------------------------------------------- URLs

\* "s/d?v=1": a database view.
DbUrl == <<"s", "/", "d", "?", "v", "=", "1">>
\* "s/p": a page.
PageUrl == <<"s", "/", "p">>
\* "s/q?pvs=4": a page opened with a query string that is not a view.
PageUrlQ == <<"s", "/", "q", "?", "p", "v", "s", "=", "4">>
\* "s/n?v=2": the URL the service gives the database it creates.
NewDbUrl == <<"s", "/", "n", "?", "v", "=", "2">>
NoUrl == <<>>

Urls == {DbUrl, PageUrl, PageUrlQ}

\* A variant of _is_notion_database that takes any query string for a view.
IsNotionDatabaseAnyQuery(notion_url) == Contains(LastSegment(notion_url), <<"?">>)

_is_notion_database(notion_url) ==
    Contains(LastSegment(notion_url), <<"?", "v", "=">>)

\* notion_client.helpers.get_id: the id in the last path segment, without the
\* query string.
get_id(url) ==
    LET seg == LastSegment(url)
        qs == {i \in 1..Len(seg) : seg[i] = "?"}
        q == IF qs = {} THEN Len(seg) + 1
             ELSE CHOOSE i \in qs : \A j \in qs : i <= j
    IN  SubSeq(seg, 1, q - 1)

\* The response of client.databases.create.
CreatedDatabase == [object |-> "database", id |-> <<"n">>, url |-> NewDbUrl]

\* ---------------------------------------------------------------- schemas

\* A DatabaseSchema: configs maps a column to its property type, here a set of
\* <<column, type>> pairs.  NoneSchema is Python's None.
NoneSchema == [isNone |-> TRUE, configs |-> {}]
MkSchema(configs) == [isNone |-> FALSE, configs |-> configs]

Keys(schema) == {p[1] : p \in schema.configs}

\* The schema passed by the caller, the one a loaded dataframe carries, and the
\* one the target database has.
ArgSchema == MkSchema({<<"a", "title">>, <<"c", "select">>})
LoadedSchema == MkSchema({<<"a", "title">>, <<"b", "date">>})
RemoteSchema == MkSchema({<<"a", "title">>, <<"c", "number">>})

\* DatabaseSchema.from_df(df, title_col): the title column is title_col, by
\* default the first column of the dataframe.
from_df(df, title_col) ==
    LET t == IF title_col = "" THEN df.columns[1] ELSE title_col
    IN  MkSchema({<<c, IF c = t THEN "title" ELSE "rich_text">> :
                    c \in Range(df.columns)})

\* schema.is_df_compatible(df): no column of df is missing from the schema.
is_df_compatible(schema, df) == Range(df.columns) \subseteq Keys(schema)

\* ------------------------------------------------------------- dataframes

NoDf == [n |-> 0, columns |-> <<>>, has_schema |-> FALSE, schema |-> NoneSchema]

Dataframes ==
    {[n |-> n, columns |-> cols, has_schema |-> hs,
      schema |-> IF hs THEN LoadedSchema ELSE NoneSchema] :
        n \in 0..MaxRows, cols \in {<<"a">>, <<"a", "b">>}, hs \in BOOLEAN}

\* The row labels of df[::step], in iteration order; rows are 1..n.
Slice(n, step) ==
    LET k == IF step < 0 THEN -step ELSE step
        m == (n + k - 1) \div k
    IN  [i \in 1..m |-> IF step < 0 THEN n - (i - 1) * k ELSE 1 + (i - 1) * k]

\* A variant of UploadOrder that does not reverse the dataframe.
UploadOrderForward(df) == Slice(df.n, 1)

\* df[::NOT_REVERSE_DATAFRAME].iterrows()
UploadOrder(df) == Slice(df.n, NOT_REVERSE_DATAFRAME)

\* ---------------------------------------------------------- value objects

\* Strings that may be None: Python's None beside character sequences.
NoneStr == <<"None">>

Str(chars, n) == UNION {[1..k -> chars] : k \in 0..n}

IsDigit(c) == c \in {"0", "1", "2", "3", "4", "5", "6", "7", "8", "9"}
IsHex(c) == IsDigit(c) \/ c \in {"a", "b", "c", "d", "e", "f"}

\* notion_df.utils.is_uuid: 8-4-4-4-12 hexadecimal digits.
is_uuid(v) ==
    /\ Len(v) = 36
    /\ \A i \in 1..36 : IF i \in {9, 14, 19, 24} THEN v[i] = "-" ELSE IsHex(v[i])

\* notion_df.utils.is_time_string: an ISO 8601 date, YYYY-MM-DD, alone or
\* followed by T and a time hh:mm.
is_time_string(v) ==
    /\ Len(v) \in {10, 16}
    /\ \A i \in 1..10 : IF i \in {5, 8} THEN v[i] = "-" ELSE IsDigit(v[i])
    /\ Len(v) = 16 =>
         /\ v[11] = "T"
         /\ \A i \in 12..16 : IF i = 14 THEN v[i] = ":" ELSE IsDigit(v[i])

ValidationError == [ok |-> FALSE, obj |-> <<>>]
Instance(obj) == [ok |-> TRUE, obj |-> obj]

\* A variant of name_cannot_contain_comma that looks at the first character only.
NameValidatorFirstCharOnly(v) == ~(Len(v) > 0 /\ v[1] = ",")

\* SelectOption.name_cannot_contain_comma: TRUE when it returns v, FALSE when
\* it raises.
name_cannot_contain_comma(v) == ~Contains(v, <<",">>)

\* RelationObject.id_must_be_uuid
id_must_be_uuid(v) == is_uuid(v)

\* UserObject.object_is_name
object_is_name(v) == v = "user"

\* DateObject.is_start_ISO8601
is_start_ISO8601(v) == v # NoneStr => is_time_string(v)

\* DateObject.is_end_ISO8601
is_end_ISO8601(v) == v # NoneStr => is_time_string(v)

\* RollupObject.ensure_non_empty_data
ensure_non_empty_data(v) == v # None /\ v \in {"number", "date", "array"}

\* SelectOption(name=v), which SelectOption.from_value(v) is.
SelectOption(name) ==
    IF name_cannot_contain_comma(name) THEN Instance([name |-> name])
    ELSE ValidationError

\* SelectOptions.from_value(values): one SelectOption per value, and the first
\* that fails fails the whole.
SelectOptions_from_value(values) ==
    IF \E i \in 1..Len(values) : ~SelectOption(values[i]).ok THEN ValidationError
    ELSE Instance([options |-> [i \in 1..Len(values) |-> SelectOption(values[i]).obj]])

\* RelationObject(id=v)
RelationObject(id) ==
    IF id_must_be_uuid(id) THEN Instance([id |-> id]) ELSE ValidationError

\* DateObject(start=s, end=e)
DateObject(start, end) ==
    IF is_start_ISO8601(start) /\ is_end_ISO8601(end)
    THEN Instance([start |-> start, end |-> end])
    ELSE ValidationError

\* RollupObject(type=t)
RollupObject(type) ==
    IF ensure_non_empty_data(type) THEN Instance([type |-> type]) ELSE ValidationError

\* UserObject(id=.., object=o), and UserObject(id=..) when given is FALSE: a
\* default is not validated.
UserObject(given, object) ==
    IF ~given THEN Instance([object |-> "user"])
    ELSE IF object_is_name(object) THEN Instance([object |-> object])
    ELSE ValidationError

\* The inputs tried.
Names == Str({"x", ","}, MaxNameLen)
NameLists == UNION {[1..k -> Names] : k \in 0..MaxOptions}
Hex8 == <<"0", "1", "a", "b", "2", "3", "c", "d">>
Hex4 == <<"4", "5", "e", "f">>
Uuid == Hex8 \o <<"-">> \o Hex4 \o <<"-">> \o Hex4 \o <<"-">> \o Hex4 \o <<"-">>
            \o Hex8 \o Hex4
Ids == {Uuid, [Uuid EXCEPT ![3] = "z"], [Uuid EXCEPT ![9] = "0"], Hex8, <<>>}
Day == <<"2", "0", "2", "2", "-", "0", "1", "-", "3", "1">>
TimeStrings == {NoneStr, Day, Day \o <<"T", "0", "9", ":", "3", "0">>,
                Day \o <<"T">>, <<"3", "1", "/", "0", "1">>, <<>>}
RollupTypes == {None, "number", "date", "array", "formula", ""}
UserObjects == {"user", "bot", ""}

NoBuilt == [cls |-> None, input |-> <<>>, result |-> ValidationError]

\* ------------------------------------------------------------- rich text

Min(a, b) == IF a <= b THEN a ELSE b

\* value[a : b], for 0 <= a <= b.
PySlice(value, a, b) == SubSeq(value, a + 1, Min(b, Len(value)))

\* range(0, stop, step), for step > 0.
PyRange(stop, step) == [i \in 1..((stop + step - 1) \div step) |-> (i - 1) * step]

\* RichTextObject(text=TextObject(content=content))
RichTextObject(content) == [text |-> [content |-> content]]

\* A variant of encode_string that leaves out the chunk after the last full one.
EncodeStringFullChunksOnly(value) ==
    LET chunk_size == RICH_TEXT_CONTENT_MAX_LENGTH
        idxs == PyRange(Len(value) - (Len(value) % chunk_size), chunk_size)
    IN  [i \in 1..Len(idxs) |->
            RichTextObject(PySlice(value, idxs[i], idxs[i] + chunk_size))]

\* RichTextObject.encode_string
encode_string(value) ==
    LET chunk_size == RICH_TEXT_CONTENT_MAX_LENGTH
        idxs == PyRange(Len(value), chunk_size)
    IN  [i \in 1..Len(idxs) |->
            RichTextObject(PySlice(value, idxs[i], idxs[i] + chunk_size))]

\* The strings tried.
Texts == Str({"a", "b"}, MaxStrLen)

\* ----------------------------------------------------------------- blocks

\* blocks.py: the keys of BLOCKS_MAPPING, one per subclass of BaseNotionBlock.
BLOCKS_MAPPING ==
    {"paragraph", "heading_1", "heading_2", "heading_3", "callout", "quote",
     "bulleted_list_item", "numbered_list_item", "to_do", "toggle", "code",
     "child_page", "child_database", "embed", "image", "video", "file", "pdf",
     "bookmark", "equation", "divider", "table_of_contents", "breadcrumb",
     "link_preview", "link_to_page"}

\* What the field named by the type holds: an attributes object that declares
\* children (a subclass of BaseAttributeWithChildren), one that does not (a
\* subclass of BaseAttributes), or a plain dict.
AttributesKind(type) ==
    IF type \in {"paragraph", "heading_1", "heading_2", "heading_3", "callout",
                 "quote", "bulleted_list_item", "numbered_list_item", "to_do",
                 "toggle"}
    THEN "with_children"
    ELSE IF type \in {"divider", "breadcrumb"} THEN "dict"
    ELSE "no_children"

\* The block types tried: one of each kind, and one BLOCKS_MAPPING lacks.
TypesTried == {"paragraph", "child_page", "divider", "table"}

\* The blocks the service holds under a page: block b is tree[b], with its type
\* and its parent block (0 for the page itself); a parent comes before its
\* children.
Trees ==
    UNION {{t \in [1..n -> [type : TypesTried, parent : 0..(n - 1)]] :
                \A b \in 1..n : t[b].parent < b} : n \in 0..MaxBlocks}

\* The ids of the blocks of s, a set of numbers, in ascending order.
RECURSIVE Ascending(_)
Ascending(s) ==
    IF s = {} THEN <<>>
    ELSE LET m == CHOOSE x \in s : \A y \in s : x <= y
         IN  <<m>> \o Ascending(s \ {m})

\* client.blocks.children.list(block_id=b)["results"], and the page's blocks
\* for b = 0, as block ids.
Kids(tree, b) == Ascending({c \in 1..Len(tree) : tree[c].parent = b})

\* The dict the service gives for block b.
BlockData(tree, b) ==
    [id |-> b, type |-> tree[b].type, has_children |-> Kids(tree, b) # <<>>]

\* The children of a parsed block: None until set_children, then a list.
NoChildren == [isNone |-> TRUE, list |-> <<>>]
Children(list) == [isNone |-> FALSE, list |-> list]

\* What parse_one_block returns for an unknown type: None.
NoneBlock == [isNone |-> TRUE, id |-> 0, type |-> None, has_children |-> FALSE,
              children |-> NoChildren]

\* parse_one_block
parse_one_block(data) ==
    IF data.type \notin BLOCKS_MAPPING THEN NoneBlock
    ELSE [isNone |-> FALSE, id |-> data.id, type |-> data.type,
          has_children |-> data.has_children, children |-> NoChildren]

\* BaseNotionBlock.set_children: the block with its children set, or the
\* exception: an attributes object takes no field it does not declare
\* (ValueError), and a dict takes no attribute (AttributeError).
set_children(block, value) ==
    CASE AttributesKind(block.type) = "with_children" ->
            [raised |-> None, block |-> [block EXCEPT !.children = Children(value)]]
      [] AttributesKind(block.type) = "no_children" ->
            [raised |-> "ValueError", block |-> block]
      [] OTHER ->
            [raised |-> "AttributeError", block |-> block]

NoBlockArgs == [tree |-> <<>>, recursive |-> FALSE, client |-> None]
NoBlockOut == [kind |-> "none", exc |-> None, value |-> <<>>]

\* A frame of parse_blocks: data (block ids), the index of the element the loop
\* is at, all_blocks, and the block whose children the frame called for are
\* being parsed.
Frame(data) == [data |-> data, i |-> 1, all_blocks |-> <<>>, block |-> NoneBlock]

\* ------------------------------------------------------------------ state

VARIABLES
    API_KEY,      \* agent.py: the module-level key, None until config() sets it
    environ,      \* os.environ.get("NOTION_API_KEY"), None when unset
    pc,           \* where the current call is: idle, wrapper, upload, load,
                  \* rows, inflight, done
    func,         \* the wrapped function being called: "upload" or "load"
    args,         \* the arguments of the current call
    client,       \* the client of the current call: who made it, its key, closes
    schema,       \* upload's local schema
    databse_id,   \* upload's local databse_id
    notion_url,   \* upload's local notion_url (reassigned for a page URL)
    requests,     \* the calls issued through the client, in order
    pos,          \* upload_to_database: index into the iteration order
    attempts,     \* how often upload_row_to_database was entered, per row
    failed,       \* the rows whose upload raised
    created,      \* the rows whose pages.create returned
    warned,       \* the number of warnings.warn calls
    out,          \* how the call ended: nothing yet, a return value, an exception
    built,        \* the value object constructed last: its class, the input, and
                  \* the instance or the validation error
    bpc,          \* where the current parse_blocks call is: idle, running, done
    bargs,        \* its arguments, and the blocks the service holds
    stack,        \* the frames of parse_blocks, the innermost last
    listed,       \* the block ids given to client.blocks.children.list, in order
    bwarned,      \* the number of warnings.warn calls of parse_one_block
    bout          \* how the outermost parse_blocks ended

vars == <<API_KEY, environ, pc, func, args, client, schema, databse_id,
          notion_url, requests, pos, attempts, failed, created, warned, out,
          built, bpc, bargs, stack, listed, bwarned, bout>>

blockVars == <<bpc, bargs, stack, listed, bwarned, bout>>

callVars == <<client, schema, databse_id, notion_url, requests, pos, attempts,
              failed, created, warned, out>>

ApiKeys == {None, "key_arg"}
EnvKeys == {None, "key_env"}
ConfigKeys == {"key_cfg"}
Modes == {"a", "append", "w"}
ErrorPolicies == {"strict", "warn", "ignore"}
Clients == {None, "caller_client"}

NoClient == [owner |-> "none", auth |-> None, closed |-> 0]
NoOut == [kind |-> "none", exc |-> None, msg |-> None, value |-> NoUrl]
Raise(exc, msg) == [kind |-> "raise", exc |-> exc, msg |-> msg, value |-> NoUrl]
Return(value) == [kind |-> "return", exc |-> None, msg |-> None, value |-> value]

\* title_col names a column of the dataframe, or is left at its default.
UploadArgs ==
    {a \in [df : Dataframes, notion_url : Urls, schema : {NoneSchema, ArgSchema},
            mode : Modes, title_col : {"", "a", "b"}, errors : ErrorPolicies,
            api_key : ApiKeys, client : Clients] :
        a.title_col \in {"", a.df.columns[Len(a.df.columns)]}}

LoadArgs ==
    {[df |-> NoDf, notion_url |-> u, schema |-> NoneSchema, mode |-> "a",
      title_col |-> "", errors |-> "strict", api_key |-> k, client |-> c] :
        u \in Urls, k \in ApiKeys, c \in Clients}

NoArgs == [df |-> NoDf, notion_url |-> NoUrl, schema |-> NoneSchema, mode |-> "a",
           title_col |-> "", errors |-> "strict", api_key |-> None, client |-> None]

\* The state of a call that has not started.
Fresh ==
    /\ client = NoClient
    /\ schema = NoneSchema
    /\ databse_id = NoUrl
    /\ notion_url = NoUrl
    /\ requests = <<>>
    /\ pos = 0
    /\ attempts = <<>>
    /\ failed = {}
    /\ created = {}
    /\ warned = 0
    /\ out = NoOut

\* A new call starts from that state.
Reset ==
    /\ client' = NoClient
    /\ schema' = NoneSchema
    /\ databse_id' = NoUrl
    /\ notion_url' = NoUrl
    /\ requests' = <<>>
    /\ pos' = 0
    /\ attempts' = <<>>
    /\ failed' = {}
    /\ created' = {}
    /\ warned' = 0
    /\ out' = NoOut

Init ==
    /\ API_KEY = None
    /\ environ \in EnvKeys
    /\ pc = "idle"
    /\ func = None
    /\ args = NoArgs
    /\ Fresh
    /\ built = NoBuilt
    /\ bpc = "idle"
    /\ bargs = NoBlockArgs
    /\ stack = <<>>
    /\ listed = <<>>
    /\ bwarned = 0
    /\ bout = NoBlockOut

\* ---------------------------------------------------------------- actions

\* The call has ended; the caller goes on, and what is left of the call is
\* dropped.
Continue ==
    /\ pc = "done"
    /\ pc' = "idle"
    /\ func' = None
    /\ args' = NoArgs
    /\ Reset
    /\ UNCHANGED <<blockVars, built, API_KEY, environ>>

\* config(api_key), called between two calls.
config(api_key) ==
    /\ pc = "idle"
    /\ API_KEY' = api_key
    /\ UNCHANGED <<blockVars, built, environ, pc, func, args, callVars>>

\* The caller calls upload.
CallUpload ==
    /\ pc = "idle"
    /\ func' = "upload"
    /\ args' \in UploadArgs
    /\ pc' = "wrapper"
    /\ UNCHANGED <<blockVars, built, API_KEY, environ, callVars>>

\* The caller calls load.
CallLoad ==
    /\ pc = "idle"
    /\ func' = "load"
    /\ args' \in LoadArgs
    /\ pc' = "wrapper"
    /\ UNCHANGED <<blockVars, built, API_KEY, environ, callVars>>

\* A variant of _load_api_key that prefers the environment to the module-level key.
LoadApiKeyEnvFirst(api_key) ==
    IF api_key # None THEN api_key
    ELSE IF environ # None THEN environ
    ELSE IF API_KEY # None THEN API_KEY
    ELSE "ValueError"

\* _load_api_key: the key, or "ValueError" when it raises.
_load_api_key(api_key) ==
    IF api_key # None THEN api_key
    ELSE IF API_KEY # None THEN API_KEY
    ELSE IF environ # None THEN environ
    ELSE "ValueError"

\* use_client.wrapper up to the call of func.
WrapperEnter ==
    /\ pc = "wrapper"
    /\ IF args.client # None
       THEN /\ client' = [owner |-> "caller", auth |-> None, closed |-> 0]
            /\ pc' = func
            /\ out' = out
       ELSE IF _load_api_key(args.api_key) = "ValueError"
       THEN /\ client' = client
            /\ pc' = "done"
            /\ out' = Raise("ValueError", "No API key provided")
       ELSE /\ client' = [owner |-> "wrapper", auth |-> _load_api_key(args.api_key),
                          closed |-> 0]
            /\ pc' = func
            /\ out' = out
    /\ UNCHANGED <<blockVars, built, API_KEY, environ, func, args, schema, databse_id, notion_url,
                   requests, pos, attempts, failed, created, warned>>

Request(op, target, row) == [op |-> op, target |-> target, row |-> row]

\* upload, lines 170-172: the schema before the target is looked at.
InitialSchema(a) ==
    IF a.schema.isNone /\ a.df.has_schema THEN a.df.schema ELSE a.schema

\* upload, lines 174-183: the target and the schema.  ok says whether the one
\* remote call made here (databases.create or databases.retrieve) succeeds.
\* The result holds upload's locals afterwards, the requests issued, and
\* whether the remote call raised.
ResolveTarget(a, ok) ==
    LET s0 == InitialSchema(a)
    IN  IF ~_is_notion_database(a.notion_url)
        THEN LET s1 == IF s0.isNone THEN from_df(a.df, a.title_col) ELSE s0
             IN  [requests |-> <<Request("databases.create", get_id(a.notion_url), 0)>>,
                  raised |-> ~ok,
                  schema |-> s1,
                  databse_id |-> IF ok THEN CreatedDatabase.id ELSE NoUrl,
                  notion_url |-> IF ok THEN CreatedDatabase.url ELSE a.notion_url]
        ELSE IF s0.isNone
        THEN [requests |-> <<Request("databases.retrieve", get_id(a.notion_url), 0)>>,
              raised |-> ~ok,
              schema |-> IF ok THEN RemoteSchema ELSE s0,
              databse_id |-> get_id(a.notion_url),
              notion_url |-> a.notion_url]
        ELSE [requests |-> <<>>,
              raised |-> FALSE,
              schema |-> s0,
              databse_id |-> get_id(a.notion_url),
              notion_url |-> a.notion_url]

\* A variant of Check that tests mode before compatibility.
CheckModeFirst(s, df, mode) ==
    IF s.isNone THEN "AssertionError"
    ELSE IF mode \notin {"a", "append"} THEN "NotImplementedError"
    ELSE IF ~is_df_compatible(s, df) THEN "ValueError"
    ELSE "ok"

\* upload, lines 186-196: the checks before the rows are uploaded.
Check(s, df, mode) ==
    IF s.isNone THEN "AssertionError"
    ELSE IF ~is_df_compatible(s, df) THEN "ValueError"
    ELSE IF mode \notin {"a", "append"} THEN "NotImplementedError"
    ELSE "ok"

\* upload, lines 170-199: everything before upload_to_database.
UploadPrologue ==
    /\ pc = "upload"
    /\ \E ok \in BOOLEAN :
        LET t == ResolveTarget(args, ok)
            c == Check(t.schema, args.df, args.mode)
        IN  /\ requests' = requests \o t.requests
            /\ schema' = t.schema
            /\ databse_id' = t.databse_id
            /\ notion_url' = t.notion_url
            /\ IF t.raised
               THEN /\ out' = Raise("APIResponseError", None)
                    /\ pc' = "done"
                    /\ UNCHANGED <<pos, attempts>>
               ELSE IF c # "ok"
               THEN /\ out' = Raise(c, None)
                    /\ pc' = "done"
                    /\ UNCHANGED <<pos, attempts>>
               ELSE /\ out' = out
                    /\ pc' = "rows"
                    /\ pos' = 1
                    /\ attempts' = [r \in 1..args.df.n |-> 0]
    /\ UNCHANGED <<blockVars, built, API_KEY, environ, func, args, client, failed, created, warned>>

\* A variant of ErrorAction that goes on under "strict".
ErrorActionSwallowStrict(errors) ==
    CASE errors = "strict" -> "continue"
      [] errors = "warn" -> "warn"
      [] errors = "ignore" -> "continue"
      [] OTHER -> "continue"

\* A variant of ErrorAction that raises under "warn".
ErrorActionWarnRaises(errors) ==
    CASE errors = "strict" -> "raise"
      [] errors = "warn" -> "raise"
      [] errors = "ignore" -> "continue"
      [] OTHER -> "continue"

\* upload_to_database, lines 100-106: what the except clause does.
ErrorAction(errors) ==
    CASE errors = "strict" -> "raise"
      [] errors = "warn" -> "warn"
      [] errors = "ignore" -> "continue"
      [] OTHER -> "continue"

\* upload_to_database, lines 100-106: the upload of row raised.
RowRaised(row) ==
    /\ failed' = failed \cup {row}
    /\ warned' = IF ErrorAction(args.errors) = "warn" THEN warned + 1 ELSE warned
    /\ IF ErrorAction(args.errors) = "raise"
       THEN /\ out' = Raise("RowError", None)
            /\ pc' = "done"
            /\ pos' = pos
       ELSE /\ out' = out
            /\ pc' = "rows"
            /\ pos' = pos + 1

\* upload_to_database takes the next row and upload_row_to_database builds its
\* properties, which may raise, and issues pages.create.
UploadRowBegin ==
    /\ pc = "rows"
    /\ pos <= Len(UploadOrder(args.df))
    /\ LET row == UploadOrder(args.df)[pos]
       IN  /\ attempts' = [attempts EXCEPT ![row] = @ + 1]
           /\ \/ /\ RowRaised(row)
                 /\ UNCHANGED requests
              \/ /\ requests' = Append(requests, Request("pages.create", databse_id, row))
                 /\ pc' = "inflight"
                 /\ UNCHANGED <<pos, failed, warned, out>>
    /\ UNCHANGED <<blockVars, built, API_KEY, environ, func, args, client, schema, databse_id,
                   notion_url, created>>

\* client.pages.create returns or raises.
UploadRowEnd ==
    /\ pc = "inflight"
    /\ LET row == UploadOrder(args.df)[pos]
       IN  \/ /\ created' = created \cup {row}
              /\ pc' = "rows"
              /\ pos' = pos + 1
              /\ UNCHANGED <<failed, warned, out>>
           \/ /\ RowRaised(row)
              /\ UNCHANGED created
    /\ UNCHANGED <<blockVars, built, API_KEY, environ, func, args, client, schema, databse_id,
                   notion_url, requests, attempts>>

\* use_client.wrapper, lines 51-53, after func returned.
Close(c, orig_client) ==
    IF orig_client = None THEN [c EXCEPT !.closed = @ + 1] ELSE c

\* upload returns notion_url and the wrapper closes the client it made.
UploadReturn ==
    /\ pc = "rows"
    /\ pos > Len(UploadOrder(args.df))
    /\ out' = Return(notion_url)
    /\ client' = Close(client, args.client)
    /\ pc' = "done"
    /\ UNCHANGED <<blockVars, built, API_KEY, environ, func, args, schema, databse_id, notion_url,
                   requests, pos, attempts, failed, created, warned>>

\* load, lines 61-75, and the wrapper's close.  The dataframe it returns is not
\* part of the state.
Load ==
    /\ pc = "load"
    /\ LET id == get_id(args.notion_url)
           q == Request("databases.query", id, 0)
           r == Request("databases.retrieve", id, 0)
       IN  IF ~_is_notion_database(args.notion_url)
           THEN /\ out' = Raise("AssertionError", None)
                /\ UNCHANGED <<requests, client>>
           ELSE \/ /\ requests' = Append(requests, q)
                   /\ out' = Raise("APIResponseError", None)
                   /\ UNCHANGED client
                \/ /\ requests' = requests \o <<q, r>>
                   /\ out' = Raise("APIResponseError", None)
                   /\ UNCHANGED client
                \/ /\ requests' = requests \o <<q, r>>
                   /\ out' = Return(NoUrl)
                   /\ client' = Close(client, args.client)
    /\ pc' = "done"
    /\ UNCHANGED <<blockVars, built, API_KEY, environ, func, args, schema, databse_id, notion_url,
                   pos, attempts, failed, created, warned>>

Next ==
    \/ \E k \in ConfigKeys : config(k)
    \/ CallUpload
    \/ CallLoad
    \/ WrapperEnter
    \/ UploadPrologue
    \/ UploadRowBegin
    \/ UploadRowEnd
    \/ UploadReturn
    \/ Load
    \/ Continue

Spec == Init /\ [][Next]_vars

\* --------------------------------------------- value object constructions

\* Value objects are made one at a time: a class is called with an input and
\* gives an instance or a validation error.
mainVars == <<API_KEY, environ, pc, func, args, callVars, blockVars>>

Built(cls, input, result) == [cls |-> cls, input |-> input, result |-> result]

NewSelectOption ==
    /\ built = NoBuilt
    /\ \E v \in Names : built' = Built("SelectOption", v, SelectOption(v))
    /\ UNCHANGED mainVars

NewSelectOptions ==
    /\ built = NoBuilt
    /\ \E vs \in NameLists :
        built' = Built("SelectOptions", vs, SelectOptions_from_value(vs))
    /\ UNCHANGED mainVars

NewRelationObject ==
    /\ built = NoBuilt
    /\ \E v \in Ids : built' = Built("RelationObject", v, RelationObject(v))
    /\ UNCHANGED mainVars

NewDateObject ==
    /\ built = NoBuilt
    /\ \E s \in TimeStrings, e \in TimeStrings :
        built' = Built("DateObject", [start |-> s, end |-> e], DateObject(s, e))
    /\ UNCHANGED mainVars

NewRollupObject ==
    /\ built = NoBuilt
    /\ \E t \in RollupTypes : built' = Built("RollupObject", t, RollupObject(t))
    /\ UNCHANGED mainVars

NewUserObject ==
    /\ built = NoBuilt
    /\ \E g \in BOOLEAN, o \in UserObjects :
        built' = Built("UserObject", [given |-> g, object |-> IF g THEN o ELSE ""],
                       UserObject(g, o))
    /\ UNCHANGED mainVars

EncodeString ==
    /\ built = NoBuilt
    /\ \E v \in Texts :
        built' = Built("RichTextObject.encode_string", v, Instance(encode_string(v)))
    /\ UNCHANGED mainVars

\* The value object constructed last is dropped.
Discard ==
    /\ built # NoBuilt
    /\ built' = NoBuilt
    /\ UNCHANGED mainVars

NextObjects ==
    \/ NewSelectOption
    \/ NewSelectOptions
    \/ NewRelationObject
    \/ NewDateObject
    \/ NewRollupObject
    \/ NewUserObject
    \/ EncodeString
    \/ Discard

SpecObjects == Init /\ [][NextObjects]_vars

\* ----------------------------------------------------------- parse_blocks

BlockArgs == [tree : Trees, recursive : BOOLEAN, client : Clients]

\* parse_blocks(data, recursive, client) is called with the blocks of a page.
ParseCall ==
    /\ bpc = "idle"
    /\ bargs' \in BlockArgs
    /\ stack' = <<Frame(Kids(bargs'.tree, 0))>>
    /\ bpc' = "running"
    /\ UNCHANGED <<listed, bwarned, bout>>
    /\ UNCHANGED <<API_KEY, environ, pc, func, args, callVars, built>>

\* One turn of the loop of the innermost parse_blocks, lines 299-309, up to the
\* call of client.blocks.children.list when there is one.
ParseElement ==
    /\ bpc = "running"
    /\ LET top == stack[Len(stack)]
           data == BlockData(bargs.tree, top.data[top.i])
           block == parse_one_block(data)
       IN  /\ top.i <= Len(top.data)
           /\ bwarned' = IF block.isNone THEN bwarned + 1 ELSE bwarned
           /\ IF block.isNone
              THEN \* block.has_children of None
                   /\ bout' = [kind |-> "raise", exc |-> "AttributeError", value |-> <<>>]
                   /\ bpc' = "done"
                   /\ stack' = <<>>
                   /\ UNCHANGED listed
              ELSE IF block.has_children /\ bargs.recursive /\ bargs.client # None
              THEN /\ listed' = Append(listed, block.id)
                   /\ stack' = Append([stack EXCEPT ![Len(stack)].block = block],
                                      Frame(Kids(bargs.tree, block.id)))
                   /\ UNCHANGED <<bpc, bout>>
              ELSE /\ stack' = [stack EXCEPT
                                  ![Len(stack)].all_blocks = Append(@, block),
                                  ![Len(stack)].i = @ + 1]
                   /\ UNCHANGED <<bpc, bout, listed>>
    /\ UNCHANGED <<bargs>>
    /\ UNCHANGED <<API_KEY, environ, pc, func, args, callVars, built>>

\* The innermost parse_blocks returns all_blocks, line 310; a frame that called
\* it goes on with set_children and all_blocks.append, lines 302-309.
ParseReturn ==
    /\ bpc = "running"
    /\ LET top == stack[Len(stack)]
           n == Len(stack)
       IN  /\ top.i > Len(top.data)
           /\ IF n = 1
              THEN /\ bout' = [kind |-> "return", exc |-> None, value |-> top.all_blocks]
                   /\ bpc' = "done"
                   /\ stack' = <<>>
              ELSE LET set == set_children(stack[n - 1].block, top.all_blocks)
                   IN  IF set.raised # None
                       THEN /\ bout' = [kind |-> "raise", exc |-> set.raised, value |-> <<>>]
                            /\ bpc' = "done"
                            /\ stack' = <<>>
                       ELSE /\ stack' = [SubSeq(stack, 1, n - 1) EXCEPT
                                           ![n - 1].all_blocks = Append(@, set.block),
                                           ![n - 1].i = @ + 1,
                                           ![n - 1].block = NoneBlock]
                            /\ UNCHANGED <<bpc, bout>>
    /\ UNCHANGED <<bargs, listed, bwarned>>
    /\ UNCHANGED <<API_KEY, environ, pc, func, args, callVars, built>>

\* The call has ended; the caller goes on.
ParseContinue ==
    /\ bpc = "done"
    /\ bpc' = "idle"
    /\ bargs' = NoBlockArgs
    /\ stack' = <<>>
    /\ listed' = <<>>
    /\ bwarned' = 0
    /\ bout' = NoBlockOut
    /\ UNCHANGED <<API_KEY, environ, pc, func, args, callVars, built>>

NextBlocks ==
    \/ ParseCall
    \/ ParseElement
    \/ ParseReturn
    \/ ParseContinue

SpecBlocks == Init /\ [][NextBlocks]_vars

\* ------------------------------------------------------------ observations

\* The pages.create requests of the call, in the order they were issued.
Sent == SelectSeq(requests, LAMBDA r : r.op = "pages.create")

IssuedOps == {requests[i].op : i \in 1..Len(requests)}

\* upload got past the target and the schema (lines 170-183) without the
\* service failing.
Resolved ==
    /\ func = "upload"
    /\ pc \in {"rows", "inflight", "done"}
    /\ client.owner # "none"
    /\ out.exc # "APIResponseError"

\* upload reached upload_to_database.
InRows == func = "upload" /\ pos >= 1

\* The URLs of the model by kind, read off the URLs themselves.
IsPageUrl(u) == u \in {PageUrl, PageUrlQ}
IdInUrl(u) ==
    CASE u = DbUrl -> <<"d">>
      [] u = PageUrl -> <<"p">>
      [] u = PageUrlQ -> <<"q">>

\* The place of row r in the reverse of the dataframe's row order.
ReversePlace(r) == args.df.n - r + 1

\* ------------------------------------------------------------------ claims

\* C1: with errors == "strict", the first row whose upload raises ends the
\* upload: the exception reaches the caller and no URL is returned, no row
\* after the failing one (the dataframe is uploaded last row first) is sent to
\* pages.create, and the rows uploaded before it are created.
C1_StrictStopsAtFirstFailure ==
    (func = "upload" /\ args.errors = "strict" /\ failed # {}) =>
        /\ pc = "done"
        /\ out.kind = "raise"
        /\ out.exc = "RowError"
        /\ out.value = NoUrl
        /\ \E f \in failed :
            /\ failed = {f}
            /\ \A i \in 1..Len(Sent) : Sent[i].row >= f
            /\ \A r \in 1..args.df.n : r < f => attempts[r] = 0
            /\ created = {r \in 1..args.df.n : r > f}

\* A strict upload whose second row to go fails after the first was created,
\* with a row left that is never sent.
C1_Witness ==
    /\ func = "upload"
    /\ args.errors = "strict"
    /\ pc = "done"
    /\ args.df.n = 3
    /\ failed = {2}
    /\ created = {3}

\* C2: with errors == "warn" or "ignore" a failing row never stops the upload:
\* no row is attempted twice and no exception is raised by the rows; when the
\* upload ends every row was attempted once, every row that did not fail is
\* created and the URL of the target is returned; "warn" has warned once per
\* failing row and "ignore" never.
C2_LenientNeverStops ==
    (InRows /\ args.errors \in {"warn", "ignore"}) =>
        /\ \A r \in 1..args.df.n : attempts[r] <= 1
        /\ out.kind # "raise"
        /\ warned = IF args.errors = "warn" THEN Cardinality(failed) ELSE 0
        /\ pc = "done" =>
            /\ \A r \in 1..args.df.n : attempts[r] = 1
            /\ created = (1..args.df.n) \ failed
            /\ out.kind = "return"
            /\ out.value = IF IsPageUrl(args.notion_url) THEN NewDbUrl
                           ELSE args.notion_url

\* A "warn" upload that returned although a row failed, another row created.
C2_Witness ==
    /\ InRows
    /\ args.errors = "warn"
    /\ pc = "done"
    /\ out.kind = "return"
    /\ failed # {}
    /\ created # {}
    /\ warned = Cardinality(failed)

\* C3: with schema not set, the schema in use is the one retrieved from the
\* target database for a database URL and the one inferred from the dataframe
\* with title_col otherwise; with schema set it is that schema, and none is
\* retrieved.
C3_SchemaSource ==
    Resolved =>
        IF ~args.schema.isNone
        THEN /\ schema = args.schema
             /\ "databases.retrieve" \notin IssuedOps
        ELSE IF IsPageUrl(args.notion_url)
        THEN schema = from_df(args.df, args.title_col)
        ELSE /\ schema = RemoteSchema
             /\ "databases.retrieve" \in IssuedOps

\* C4: a page URL makes upload issue exactly one databases.create under that
\* page, send every row it sends to the database created and return that
\* database's URL; a database URL makes it issue no databases.create, send the
\* rows to the id in the URL and return notion_url.
C4_TargetByUrl ==
    (func = "upload" /\ pc \in {"rows", "inflight", "done"} /\ client.owner # "none") =>
        LET creates == SelectSeq(requests, LAMBDA r : r.op = "databases.create")
        IN  IF IsPageUrl(args.notion_url)
            THEN /\ Len(creates) = 1
                 /\ creates[1].target = IdInUrl(args.notion_url)
                 /\ \A i \in 1..Len(Sent) : Sent[i].target = CreatedDatabase.id
                 /\ out.kind = "return" => out.value = CreatedDatabase.url
            ELSE /\ Len(creates) = 0
                 /\ \A i \in 1..Len(Sent) : Sent[i].target = IdInUrl(args.notion_url)
                 /\ out.kind = "return" => out.value = args.notion_url

\* An upload to a page opened with a query string returned after creating a row.
C4_Witness ==
    /\ func = "upload"
    /\ args.notion_url = PageUrlQ
    /\ pc = "done"
    /\ out = Return(NewDbUrl)
    /\ created # {}

\* C5: when the dataframe has a column the schema in use lacks, upload raises
\* ValueError and sends no row, whatever mode and errors are.
C5_IncompatibleRaises ==
    (Resolved /\ ~(Range(args.df.columns) \subseteq Keys(schema))) =>
        /\ pc = "done"
        /\ out.kind = "raise"
        /\ out.exc = "ValueError"
        /\ Len(Sent) = 0

\* An incompatible dataframe with rows, uploaded with an unsupported mode and errors ignored.
C5_Witness ==
    /\ Resolved
    /\ ~(Range(args.df.columns) \subseteq Keys(schema))
    /\ args.mode = "w"
    /\ args.errors = "ignore"
    /\ args.df.n > 0
    /\ out.exc = "ValueError"

\* C6: when upload raises NotImplementedError for a mode other than "a" and
\* "append", it has issued no databases.create and no pages.create.
C6_UnsupportedModeLeavesRemote ==
    (func = "upload" /\ args.mode \notin {"a", "append"} /\ pc = "done"
        /\ out.exc = "NotImplementedError") =>
        /\ "databases.create" \notin IssuedOps
        /\ "pages.create" \notin IssuedOps

\* C7: when a call ends, by return or by exception, its client has been closed
\* once if the wrapper made it and never if the caller passed it in.
C7_ClosedIffOwned ==
    (pc = "done" /\ client.owner # "none") =>
        client.closed = IF args.client = None THEN 1 ELSE 0

\* C8: the key of a client the wrapper makes is the api_key argument, else the
\* module-level key, else the environment's; with none of them ValueError is
\* raised and no client is made; only config() changes the module-level key.
C8_KeyPrecedence ==
    /\ [](pc \in {"upload", "load", "rows", "inflight", "done"} /\ args.client = None =>
            IF args.api_key # None THEN client.auth = args.api_key
            ELSE IF API_KEY # None THEN client.auth = API_KEY
            ELSE IF environ # None THEN client.auth = environ
            ELSE /\ client = NoClient
                 /\ out = Raise("ValueError", "No API key provided")
                 /\ requests = <<>>)
    /\ [][API_KEY' # API_KEY => pc = "idle" /\ pc' = "idle"]_vars

\* A call without api_key made a client while both the module-level key and the
\* environment's were set.
C8_Witness ==
    /\ pc = "upload"
    /\ args.client = None
    /\ args.api_key = None
    /\ API_KEY = "key_cfg"
    /\ environ = "key_env"
    /\ client.auth = "key_cfg"

\* C10: the rows are sent to pages.create last row first, no row twice, and a
\* row is sent only when the row sent before it was created or had failed.
C10_ReverseOrderOneAtATime ==
    /\ \A i, j \in 1..Len(Sent) : i < j => Sent[i].row > Sent[j].row
    /\ \A i \in 1..(Len(Sent) - 1) : Sent[i].row \in created \cup failed

\* Three rows were sent, the last of the dataframe first.
C10_Witness ==
    /\ Len(Sent) = 3
    /\ Sent[1].row = 3
    /\ Sent[3].row = 1

\* C9: a value object that was constructed satisfies the rule of its class, and
\* an input that breaks the rule gives a validation error and no instance: no
\* comma in a SelectOption name (nor in any name of SelectOptions.from_value),
\* a UUID-shaped RelationObject id, DateObject start and end None or ISO 8601
\* time strings, a RollupObject type among number, date and array, and "user"
\* as a UserObject's object.
C9_ValueObjectsValidated ==
    LET obj == built.result.obj
        in == built.input
        NoComma(name) == \A i \in 1..Len(name) : name[i] # ","
        IsoOrNone(v) == v = NoneStr \/ is_time_string(v)
        RollupOk(t) == t \in {"number", "date", "array"}
    IN  /\ built.cls = "SelectOption" =>
            /\ built.result.ok => NoComma(obj.name)
            /\ ~NoComma(in) => ~built.result.ok
        /\ built.cls = "SelectOptions" =>
            /\ built.result.ok => \A i \in 1..Len(obj.options) : NoComma(obj.options[i].name)
            /\ (\E i \in 1..Len(in) : ~NoComma(in[i])) => ~built.result.ok
        /\ built.cls = "RelationObject" =>
            /\ built.result.ok => is_uuid(obj.id)
            /\ ~is_uuid(in) => ~built.result.ok
        /\ built.cls = "DateObject" =>
            /\ built.result.ok => IsoOrNone(obj.start) /\ IsoOrNone(obj.end)
            /\ ~(IsoOrNone(in.start) /\ IsoOrNone(in.end)) => ~built.result.ok
        /\ built.cls = "RollupObject" =>
            /\ built.result.ok => RollupOk(obj.type)
            /\ ~RollupOk(in) => ~built.result.ok
        /\ built.cls = "UserObject" =>
            /\ built.result.ok => obj.object = "user"
            /\ (in.given /\ in.object # "user") => ~built.result.ok

\* SelectOptions.from_value failed as a whole on a list whose first name is
\* fine and whose second holds a comma after its first character.
C9_Witness ==
    /\ built.cls = "SelectOptions"
    /\ built.input = <<<<"x">>, <<"x", ",">>>>
    /\ ~built.result.ok

\* The contents of a list of rich text objects, joined in order.
RECURSIVE Joined(_)
Joined(objs) ==
    IF objs = <<>> THEN <<>> ELSE objs[1].text.content \o Joined(Tail(objs))

\* C11: encode_string splits a string into chunks without loss: the contents
\* joined in order are the string, no chunk is longer than
\* RICH_TEXT_CONTENT_MAX_LENGTH, every chunk but the last has that length, no
\* chunk is empty, and the empty string gives the empty list.
C11_EncodeStringLossless ==
    built.cls = "RichTextObject.encode_string" =>
        LET objs == built.result.obj
            n == Len(objs)
        IN  /\ built.result.ok
            /\ Joined(objs) = built.input
            /\ \A i \in 1..n :
                /\ Len(objs[i].text.content) <= RICH_TEXT_CONTENT_MAX_LENGTH
                /\ Len(objs[i].text.content) > 0
                /\ i < n => Len(objs[i].text.content) = RICH_TEXT_CONTENT_MAX_LENGTH
            /\ built.input = <<>> => objs = <<>>

\* A string of two full chunks and a shorter last one was encoded.
C11_Witness ==
    /\ built.cls = "RichTextObject.encode_string"
    /\ Len(built.input) = 2 * RICH_TEXT_CONTENT_MAX_LENGTH + 1
    /\ Len(built.result.obj) = 3
    /\ Len(built.result.obj[3].text.content) = 1

\* The blocks given to the outermost parse_blocks.
TopData == Kids(bargs.tree, 0)

\* C12: parse_blocks ends without raising for every input list and returns one
\* entry per element in input order, None (after a warning) for an element
\* whose type BLOCKS_MAPPING lacks and the block otherwise.
C12_ParseBlocksTotal ==
    bpc = "done" =>
        /\ bout.kind = "return"
        /\ Len(bout.value) = Len(TopData)
        /\ \A i \in 1..Len(TopData) :
            IF bargs.tree[TopData[i]].type \in BLOCKS_MAPPING
            THEN ~bout.value[i].isNone /\ bout.value[i].id = TopData[i]
            ELSE bout.value[i] = NoneBlock /\ bwarned > 0

\* The blocks under block b parsed as the claim has it: every block with
\* has_children carries the parsed blocks under it.
RECURSIVE ParsedUnder(_, _)
ParsedUnder(tree, b) ==
    LET kids == Kids(tree, b)
    IN  [i \in 1..Len(kids) |->
            [isNone |-> FALSE, id |-> kids[i], type |-> tree[kids[i]].type,
             has_children |-> Kids(tree, kids[i]) # <<>>,
             children |-> IF Kids(tree, kids[i]) # <<>>
                          THEN Children(ParsedUnder(tree, kids[i]))
                          ELSE NoChildren]]

\* The blocks under block b with no children set.
Flat(tree, b) ==
    LET kids == Kids(tree, b)
    IN  [i \in 1..Len(kids) |-> parse_one_block(BlockData(tree, kids[i]))]

\* C13: on blocks whose types are all in BLOCKS_MAPPING, parse_blocks with
\* recursive=True and a client lists the children of every block with
\* has_children once and of no other, and returns the blocks with those
\* children set, whatever the type; with recursive=False or no client it lists
\* nothing and sets no children.
C13_RecursiveChildren ==
    (bpc = "done" /\ \A b \in 1..Len(bargs.tree) : bargs.tree[b].type \in BLOCKS_MAPPING) =>
        /\ bout.kind = "return"
        /\ IF bargs.recursive /\ bargs.client # None
           THEN /\ \A b \in 1..Len(bargs.tree) :
                    Cardinality({i \in 1..Len(listed) : listed[i] = b})
                        = IF Kids(bargs.tree, b) # <<>> THEN 1 ELSE 0
                /\ bout.value = ParsedUnder(bargs.tree, 0)
           ELSE /\ listed = <<>>
                /\ bout.value = Flat(bargs.tree, 0)

====
